---- MODULE Spec2Model ----
(***************************************************************************)
(* Model of two components of the risc0 repository:                        *)
(*                                                                         *)
(*   risc0/js/src/lib.rs                   the wasm receipt boundary       *)
(*       SessionReceipt::bincode_deserialize / journal / validate          *)
(*   benchmarks/src/benches/iter_pedersen.rs   the iter_pedersen Job       *)
(*       Benchmark and BenchmarkAverage implementations                    *)
(*                                                                         *)
(* SpecBoundary is the state machine of one boundary caller working on one *)
(* input buffer; Spec is the state machine of one Job and its caller.      *)
(***************************************************************************)
EXTENDS Integers, Sequences, FiniteSets, TLC

VARIABLES
    \* ---- receipt boundary (lib.rs) ----
    buffer,         \* the bytes handed to bincode_deserialize
    phase,          \* "Unparsed" | "Parsed" | "Rejected": where the caller is
    handle,         \* NoHandle, or the receipt wrapped by SessionReceipt(..)
    bret,           \* value returned by the last boundary call
    verifyCalls,    \* number of calls made to receipt.verify
    validateCalls,  \* number of calls made to validate
    results,        \* image_id -> kind returned by the latest validate(image_id)
    firstResult,    \* image_id -> kind returned by the first validate(image_id)
    lastValidate,   \* kind returned by the latest validate call, any identity
    \* ---- benchmark Job (iter_pedersen.rs) ----
    contract,       \* "Benchmark" | "BenchmarkAverage": the trait the caller drives
    job,            \* the Job struct: spec, env, image, session, prover
    proof,          \* the receipt the caller holds from guest_compute
    ret,            \* value returned by the last Job call
    log,            \* lines printed by verify_proof
    aborted,        \* TRUE once a panic has unwound the benchmark
    writes,         \* number of assignments to job.session after construction
    execCalls,      \* number of exec_compute calls
    guestCalls,     \* number of guest_compute calls
    proveCalls,     \* number of invocations of the proving backend
    calls           \* number of Job calls made by the caller

boundaryVars == <<buffer, phase, handle, bret, verifyCalls, validateCalls,
                  results, firstResult, lastValidate>>
jobVars == <<contract, job, proof, ret, log, aborted, writes, execCalls, guestCalls,
             proveCalls, calls>>
vars == <<boundaryVars, jobVars>>

\* ------------------------------------------------------------------------
\* Bounds
\* ------------------------------------------------------------------------
MaxValidate == 3      \* validate calls explored per handle
MaxSegments == 2      \* segments of a recorded session
MaxCalls == 4         \* Job calls explored per Job

\* ------------------------------------------------------------------------
\* Bytes and identities
\* ------------------------------------------------------------------------
Rep(n, b) == [i \in 1..n |-> b]

\* [u8; 32]: the length validate converts image_id to
IMAGE_ID_BYTES == 32

\* Stand-in for the test's FIB_ID, the identity the sample receipts attest.
FIB_ID == Rep(IMAGE_ID_BYTES, 7)
ZERO_ID == Rep(IMAGE_ID_BYTES, 0)
NEAR_ID == [FIB_ID EXCEPT ![IMAGE_ID_BYTES] = 8]

\* The image_id arguments explored: right length (three identities) and
\* lengths 0, 31 and 33.
ImageIds == {FIB_ID, ZERO_ID, NEAR_ID,
             <<>>, Rep(IMAGE_ID_BYTES - 1, 7), Rep(IMAGE_ID_BYTES + 1, 7)}

\* ------------------------------------------------------------------------
\* receipt::SessionReceipt and its verifier (risc0_zkvm, not in src/)
\*   a receipt is [segments |-> <<seal, ...>>, journal |-> bytes]; a seal
\*   stands for the proof of one segment and is modelled as the bytes it
\*   commits to: the image identity followed by the journal.
\* ------------------------------------------------------------------------
SealFor(image_id, journal) == image_id \o journal

FORGED_SEAL == Rep(IMAGE_ID_BYTES, 255)

\* receipt.verify(image_id): every segment's seal must attest image_id and
\* the receipt's journal; a receipt without segments proves nothing.
ReceiptVerify(receipt, image_id) ==
    IF Len(receipt.segments) = 0
    THEN [ok |-> FALSE, cause |-> "receipt has no segments"]
    ELSE IF \A i \in 1..Len(receipt.segments) :
                receipt.segments[i] = SealFor(image_id, receipt.journal)
         THEN [ok |-> TRUE]
         ELSE [ok |-> FALSE, cause |-> "seal does not verify against image id"]

SampleReceipts ==
    { [segments |-> <<SealFor(FIB_ID, <<5>>)>>, journal |-> <<5>>],
      [segments |-> <<SealFor(FIB_ID, <<>>), SealFor(FIB_ID, <<>>)>>,
       journal |-> <<>>],
      [segments |-> <<SealFor(ZERO_ID, <<5>>)>>, journal |-> <<5>>],
      [segments |-> <<FORGED_SEAL>>, journal |-> <<5>>],
      [segments |-> <<>>, journal |-> <<5>>] }

\* ------------------------------------------------------------------------
\* Wire format (bincode, not in src/): a length-delimited encoding
\*   <<#segments>> \o (<<#seal>> \o seal)* \o <<#journal>> \o journal
\* with each length prefix modelled as one byte.
\* ------------------------------------------------------------------------
EncodeVec(bytes) == <<Len(bytes)>> \o bytes

RECURSIVE EncodeSegs(_)
EncodeSegs(segs) ==
    IF segs = <<>> THEN <<>>
    ELSE EncodeVec(Head(segs)) \o EncodeSegs(Tail(segs))

Encode(receipt) ==
    <<Len(receipt.segments)>> \o EncodeSegs(receipt.segments)
        \o EncodeVec(receipt.journal)

\* Read one length-prefixed byte vector at position pos.
ReadVec(buf, pos) ==
    IF pos > Len(buf)
    THEN [ok |-> FALSE, cause |-> "unexpected end of file"]
    ELSE IF pos + buf[pos] > Len(buf)
         THEN [ok |-> FALSE, cause |-> "unexpected end of file"]
         ELSE [ok |-> TRUE, val |-> SubSeq(buf, pos + 1, pos + buf[pos]),
               next |-> pos + buf[pos] + 1]

RECURSIVE ReadSegs(_, _, _, _)
ReadSegs(buf, pos, n, acc) ==
    IF n = 0 THEN [ok |-> TRUE, val |-> acc, next |-> pos]
    ELSE LET v == ReadVec(buf, pos)
         IN  IF v.ok THEN ReadSegs(buf, v.next, n - 1, Append(acc, v.val))
             ELSE v

\* bincode::deserialize(buffer): Ok(receipt) or Err(cause)
Decode(buf) ==
    IF Len(buf) = 0
    THEN [ok |-> FALSE, cause |-> "unexpected end of file"]
    ELSE LET segs == ReadSegs(buf, 2, buf[1], <<>>)
         IN  IF ~segs.ok THEN segs
             ELSE LET j == ReadVec(buf, segs.next)
                  IN  IF ~j.ok THEN j
                      ELSE [ok |-> TRUE,
                            receipt |-> [segments |-> segs.val,
                                         journal |-> j.val]]

Prefixes(s) == {SubSeq(s, 1, n) : n \in 0..Len(s)}

\* The buffers a caller may hand in: every encoding of a sample receipt and
\* every truncation of one, the empty buffer included.
Buffers == UNION {Prefixes(Encode(r)) : r \in SampleReceipts}

\* ------------------------------------------------------------------------
\* lib.rs: the boundary operations
\* ------------------------------------------------------------------------
NoHandle == [none |-> TRUE]
NoReturn == [op |-> "none"]
NoResults == [id \in ImageIds |-> "none"]

\* JsError::new(&format!("<prefix>{e}"))
JsError(prefix, e) == [prefix |-> prefix, cause |-> e]

\* bincode_deserialize with a slip: a decode error yields an empty receipt
bincode_deserialize_defaults(buf) ==
    LET d == Decode(buf)
    IN  IF d.ok THEN [ok |-> TRUE, value |-> d.receipt]
        ELSE [ok |-> TRUE, value |-> [segments |-> <<>>, journal |-> <<>>]]

\* SessionReceipt::bincode_deserialize(buffer), the value it returns
bincode_deserialize(buf) ==
    LET d == Decode(buf)
    IN  IF d.ok THEN [ok |-> TRUE, value |-> d.receipt]
        ELSE [ok |-> FALSE,
              error |-> JsError("Failed to deserialize receipt: ", d.cause)]

Deserialize ==
    /\ phase = "Unparsed"
    /\ LET r == bincode_deserialize(buffer)
       IN  /\ phase' = IF r.ok THEN "Parsed" ELSE "Rejected"
           /\ handle' = IF r.ok THEN r.value ELSE NoHandle
           /\ bret' = [op |-> "bincode_deserialize", ok |-> r.ok,
                       kind |-> IF r.ok THEN "ok" ELSE "decode_error",
                       error |-> IF r.ok THEN NoReturn ELSE r.error]
    /\ UNCHANGED <<buffer, verifyCalls, validateCalls, results, firstResult,
                   lastValidate, jobVars>>

\* journal() with a slip: the journal is moved out of the receipt
JournalTakes(h) == [h EXCEPT !.journal = <<>>]

\* the receipt the handle holds after journal(): &self, the journal is cloned
JournalKeeps(h) == h

\* SessionReceipt::journal(&self)
Journal ==
    /\ handle # NoHandle
    /\ bret' = [op |-> "journal", ok |-> TRUE, kind |-> "ok",
                value |-> handle.journal]
    /\ handle' = JournalKeeps(handle)
    /\ UNCHANGED <<buffer, phase, verifyCalls, validateCalls, results,
                   firstResult, lastValidate, jobVars>>

\* image_id.try_into(): &[u8] -> [u8; 32]
TryInto32(image_id) ==
    IF Len(image_id) = IMAGE_ID_BYTES
    THEN [ok |-> TRUE, value |-> image_id]
    ELSE [ok |-> FALSE, cause |-> "could not convert slice to array"]

\* validate with a slip: the length of image_id is not checked
validate_unchecked(h, image_id) ==
    LET v == ReceiptVerify(h, image_id)
    IN  IF v.ok THEN [kind |-> "ok", verified |-> TRUE]
        ELSE [kind |-> "validation_error", verified |-> TRUE,
              error |-> JsError("Failed to validate proof: ", v.cause)]

\* SessionReceipt::validate(&self, image_id): the value it returns and
\* whether receipt.verify was called on the way
validate(h, image_id) ==
    LET a == TryInto32(image_id)
    IN  IF ~a.ok
        THEN [kind |-> "format_error", verified |-> FALSE,
              error |-> JsError("", a.cause)]
        ELSE LET v == ReceiptVerify(h, a.value)
             IN  IF v.ok THEN [kind |-> "ok", verified |-> TRUE]
                 ELSE [kind |-> "validation_error", verified |-> TRUE,
                       error |-> JsError("Failed to validate proof: ",
                                         v.cause)]

\* validate with a slip: a handle that validated once answers Ok from then on
Validate_cached(image_id) ==
    /\ handle # NoHandle
    /\ validateCalls < MaxValidate
    /\ LET r == IF lastValidate = "ok" THEN [kind |-> "ok", verified |-> FALSE]
                ELSE validate(handle, image_id)
       IN  /\ bret' = [op |-> "validate", ok |-> r.kind = "ok",
                       kind |-> r.kind, image_id |-> image_id]
           /\ verifyCalls' = IF r.verified THEN verifyCalls + 1
                             ELSE verifyCalls
           /\ results' = [results EXCEPT ![image_id] = r.kind]
           /\ firstResult' = IF firstResult[image_id] = "none"
                             THEN [firstResult EXCEPT ![image_id] = r.kind]
                             ELSE firstResult
           /\ lastValidate' = r.kind
    /\ validateCalls' = validateCalls + 1
    /\ UNCHANGED <<buffer, phase, handle, jobVars>>

\* A validate call by the caller holding the handle.
Validate(image_id) ==
    /\ handle # NoHandle
    /\ validateCalls < MaxValidate
    /\ LET r == validate(handle, image_id)
       IN  /\ bret' = [op |-> "validate", ok |-> r.kind = "ok",
                       kind |-> r.kind, image_id |-> image_id]
           /\ verifyCalls' = IF r.verified THEN verifyCalls + 1
                             ELSE verifyCalls
           /\ results' = [results EXCEPT ![image_id] = r.kind]
           /\ firstResult' = IF firstResult[image_id] = "none"
                             THEN [firstResult EXCEPT ![image_id] = r.kind]
                             ELSE firstResult
           /\ lastValidate' = r.kind
    /\ validateCalls' = validateCalls + 1
    /\ UNCHANGED <<buffer, phase, handle, jobVars>>

JobIdle ==
    /\ contract = "none"
    /\ job = [none |-> TRUE]
    /\ proof = [none |-> TRUE]
    /\ ret = NoReturn
    /\ log = <<>>
    /\ aborted = FALSE
    /\ writes = 0 /\ execCalls = 0 /\ guestCalls = 0 /\ proveCalls = 0
    /\ calls = 0

InitBoundary ==
    /\ buffer \in Buffers
    /\ phase = "Unparsed"
    /\ handle = NoHandle
    /\ bret = NoReturn
    /\ verifyCalls = 0
    /\ validateCalls = 0
    /\ results = NoResults
    /\ firstResult = NoResults
    /\ lastValidate = "none"
    /\ JobIdle

NextBoundary ==
    \/ Deserialize
    \/ Journal
    \/ \E image_id \in ImageIds : Validate(image_id)

SpecBoundary == InitBoundary /\ [][NextBoundary]_vars

\* ------------------------------------------------------------------------
\* iter_pedersen.rs: identities, images, sessions, receipts
\* ------------------------------------------------------------------------

\* sha::DIGEST_WORDS: a method identity is [u32; DIGEST_WORDS]
DIGEST_WORDS == 8

\* Digest::try_from(journal) takes exactly this many bytes
DIGEST_BYTES == 32

\* Stand-in for risc0_benchmark_methods::ITER_PEDERSEN_ID
METHOD_ID == [i \in 1..DIGEST_WORDS |-> i]
ZERO_METHOD_ID == Rep(DIGEST_WORDS, 0)
NEAR_METHOD_ID == [METHOD_ID EXCEPT ![DIGEST_WORDS] = 0]
OtherMethodIds == {ZERO_METHOD_ID, NEAR_METHOD_ID}

METHOD_PATH == "ITER_PEDERSEN_PATH"

\* get_image(path) (crate, not in src/): the image of the method compiled at
\* path; the identity of the image at METHOD_PATH is METHOD_ID.
get_image(path) ==
    [path |-> path,
     id |-> IF path = METHOD_PATH THEN METHOD_ID ELSE ZERO_METHOD_ID]

Halted0 == [kind |-> "Halted", code |-> 0]

\* a placeholder with a slip: its journal is a zero digest
PlaceholderSession_digest ==
    [segments |-> <<>>, journal |-> Rep(DIGEST_BYTES, 0), exit_code |-> Halted0]

\* Session::new(vec![], vec![], ExitCode::Halted(0))
PlaceholderSession ==
    [segments |-> <<>>, journal |-> <<>>, exit_code |-> Halted0]

\* The journal the guest commits: one digest.
GuestJournal == Rep(DIGEST_BYTES, 9)

\* crate::exec_compute(image, env) (benchmarks/src/lib.rs, not in src/): runs
\* the image under the executor and returns the cycle counts and the recorded
\* session; n is the number of segments the run was split into.
CrateExecCompute(image, env, n) ==
    [cycles |-> n, insn_cycles |-> n,
     session |-> [segments |-> [i \in 1..n |-> [index |-> i - 1,
                                               image_id |-> image.id]],
                  journal |-> GuestJournal,
                  exit_code |-> Halted0]]

\* Seal sizes are counted in KiB: 4 GiB, the range of u32, is 2^22 KiB, so
\* `as u32` on a byte count that is a multiple of 1024 is % U32_KIB on KiB.
U32_KIB == 4194304

\* The seal proving one segment: what it attests, and its size in KiB.
SegmentReceipt(image_id, journal, kib) ==
    [image_id |-> image_id, journal |-> journal, seal_kib |-> kib]

Flat(segments, journal) ==
    [inner |-> [kind |-> "Flat", segments |-> segments], journal |-> journal]

\* A receipt whose inner is not the flat list of segment receipts.
Succinct(image_id, journal) ==
    [inner |-> [kind |-> "Succinct", image_id |-> image_id,
                journal |-> journal],
     journal |-> journal]

\* Session::prove() (risc0_zkvm, not in src/): Err when the backend fails,
\* else a flat receipt with one seal per segment and the session's journal.
SessionProve(session, fails) ==
    IF fails THEN [ok |-> FALSE, cause |-> "prover failed"]
    ELSE [ok |-> TRUE,
          receipt |-> Flat([i \in 1..Len(session.segments) |->
                               SegmentReceipt(session.segments[i].image_id,
                                              session.journal, 256)],
                           session.journal)]

\* Prover::prove(env, ctx, opts, image) (risc0_zkvm, not in src/): executes
\* and proves in one go.
ProverProve(env, image, n, fails) ==
    SessionProve(CrateExecCompute(image, env, n).session, fails)

\* Receipt::verify(image_id) (risc0_zkvm, not in src/)
JobReceiptVerify(receipt, image_id) ==
    IF receipt.inner.kind = "Flat"
    THEN IF Len(receipt.inner.segments) = 0
         THEN [ok |-> FALSE, cause |-> "receipt has no segments"]
         ELSE IF \A i \in 1..Len(receipt.inner.segments) :
                    /\ receipt.inner.segments[i].image_id = image_id
                    /\ receipt.inner.segments[i].journal = receipt.journal
              THEN [ok |-> TRUE]
              ELSE [ok |-> FALSE, cause |-> "image id or journal mismatch"]
    ELSE IF /\ receipt.inner.image_id = image_id
            /\ receipt.inner.journal = receipt.journal
         THEN [ok |-> TRUE]
         ELSE [ok |-> FALSE, cause |-> "image id or journal mismatch"]

\* receipt.inner.flat(): the segment receipts, or Err for another inner
InnerFlat(receipt) ==
    IF receipt.inner.kind = "Flat"
    THEN [ok |-> TRUE, value |-> receipt.inner.segments]
    ELSE [ok |-> FALSE, cause |-> "receipt format error"]

\* Receipts a caller may hand to verify_proof and proof_size_bytes besides
\* the one guest_compute returned: no segments, one segment for the method,
\* one for another image, seals of 2 GiB (2097152 KiB), and a receipt that
\* is not flat.
SampleProofs ==
    { Flat(<<>>, <<>>),
      Flat(<<SegmentReceipt(METHOD_ID, GuestJournal, 256)>>, GuestJournal),
      Flat(<<SegmentReceipt(ZERO_METHOD_ID, GuestJournal, 256)>>,
           GuestJournal),
      Flat(<<SegmentReceipt(METHOD_ID, GuestJournal, 2097152)>>,
           GuestJournal),
      Flat(<<SegmentReceipt(METHOD_ID, GuestJournal, 2097152),
             SegmentReceipt(METHOD_ID, GuestJournal, 2097152)>>,
           GuestJournal),
      Succinct(METHOD_ID, GuestJournal) }

\* ------------------------------------------------------------------------
\* iter_pedersen.rs: Job construction
\* ------------------------------------------------------------------------
GUEST_INPUT_LEN == 36

\* `x as u8`
AsU8(x) == x % 256

\* `x >> k` on u32, k a multiple of 8
Shr8(x) == x \div 256
Shr16(x) == x \div 65536
Shr24(x) == x \div 16777216

\* guest_input with a slip: byte 2 shifted by 8 in place of 16
BenchmarkGuestInput_shift(spec) ==
    [i \in 1..GUEST_INPUT_LEN |->
        IF i = 1 THEN AsU8(spec)
        ELSE IF i = 2 THEN AsU8(Shr8(spec))
        ELSE IF i = 3 THEN AsU8(Shr8(spec))
        ELSE IF i = 4 THEN AsU8(Shr24(spec))
        ELSE 0]

\* <Job as Benchmark>::new: guest_input
BenchmarkGuestInput(spec) ==
    [i \in 1..GUEST_INPUT_LEN |->
        IF i = 1 THEN AsU8(spec)
        ELSE IF i = 2 THEN AsU8(Shr8(spec))
        ELSE IF i = 3 THEN AsU8(Shr16(spec))
        ELSE IF i = 4 THEN AsU8(Shr24(spec))
        ELSE 0]

\* <Job as BenchmarkAverage>::new: guest_input
AverageGuestInput(spec) ==
    [i \in 1..GUEST_INPUT_LEN |->
        IF i = 1 THEN AsU8(spec)
        ELSE IF i = 2 THEN AsU8(Shr8(spec))
        ELSE IF i = 3 THEN AsU8(Shr16(spec))
        ELSE IF i = 4 THEN AsU8(Shr24(spec))
        ELSE 0]

\* ExecutorEnv::builder().write(&guest_input).unwrap().build().unwrap()
ExecutorEnv(guest_input) == [input |-> guest_input]

\* <Job as Benchmark>::new(spec)
BenchmarkNew(spec) ==
    [spec |-> spec,
     env |-> ExecutorEnv(BenchmarkGuestInput(spec)),
     image |-> get_image(METHOD_PATH),
     session |-> PlaceholderSession,
     prover |-> "LocalProver(local)"]

\* <Job as BenchmarkAverage>::new(spec)
BenchmarkAverageNew(spec) ==
    [spec |-> spec,
     env |-> ExecutorEnv(AverageGuestInput(spec)),
     image |-> get_image(METHOD_PATH),
     session |-> PlaceholderSession,
     prover |-> "default_prover"]

\* job_size(spec), the same in both traits
job_size(spec) == spec

\* The spec values explored: new_jobs() gives 1, 10, 100; the others put a
\* distinct byte in every position and reach the largest value TLC holds.
Specs == {0, 1, 10, 100, 258, 16909060, 2147483647}

\* ------------------------------------------------------------------------
\* iter_pedersen.rs: the Job operations
\* ------------------------------------------------------------------------
NoProof == [none |-> TRUE]

BoundaryIdle ==
    /\ buffer = <<>>
    /\ phase = "Unparsed"
    /\ handle = NoHandle
    /\ bret = NoReturn
    /\ verifyCalls = 0
    /\ validateCalls = 0
    /\ results = NoResults
    /\ firstResult = NoResults
    /\ lastValidate = "none"

Running == ~aborted /\ calls < MaxCalls

\* A panic unwinds the benchmark: nothing runs after it.
Panic(op, cause) ==
    /\ aborted' = TRUE
    /\ ret' = [op |-> op, kind |-> "panic", cause |-> cause]

\* Benchmark::job_size / BenchmarkAverage::job_size on the Job's spec
JobSize ==
    /\ Running
    /\ ret' = [op |-> "job_size", kind |-> "ok", value |-> job_size(job.spec)]
    /\ calls' = calls + 1
    /\ UNCHANGED <<contract, job, proof, log, aborted, writes, execCalls,
                   guestCalls, proveCalls, boundaryVars>>

\* Benchmark::exec_compute(&mut self)
ExecCompute(n) ==
    /\ Running
    /\ contract = "Benchmark"
    /\ LET r == CrateExecCompute(job.image, job.env, n)
       IN  /\ job' = [job EXCEPT !.session = r.session]
           /\ ret' = [op |-> "exec_compute", kind |-> "ok",
                      cycles |-> r.cycles, insn_cycles |-> r.insn_cycles]
    /\ writes' = writes + 1
    /\ execCalls' = execCalls + 1
    /\ calls' = calls + 1
    /\ UNCHANGED <<contract, proof, log, aborted, guestCalls, proveCalls,
                   boundaryVars>>

\* Benchmark::exec_compute when the executor faults: crate::exec_compute
\* panics before self.session is assigned.
ExecComputeFault ==
    /\ Running
    /\ contract = "Benchmark"
    /\ Panic("exec_compute", "executor fault")
    /\ execCalls' = execCalls + 1
    /\ calls' = calls + 1
    /\ UNCHANGED <<contract, job, proof, log, writes, guestCalls, proveCalls,
                   boundaryVars>>

\* Benchmark::guest_compute(&mut self): the value it returns, or the panic
\* of expect("receipt") or of the unwrap on Digest::try_from(journal)
guest_compute(session, fails) ==
    LET r == SessionProve(session, fails)
    IN  IF ~r.ok THEN [kind |-> "panic", cause |-> "receipt"]
        ELSE IF Len(r.receipt.journal) # DIGEST_BYTES
        THEN [kind |-> "panic", cause |-> "journal is not a digest"]
        ELSE [kind |-> "ok", output |-> r.receipt.journal,
              proof |-> r.receipt]

GuestCompute(fails) ==
    /\ Running
    /\ contract = "Benchmark"
    /\ LET r == guest_compute(job.session, fails)
       IN  IF r.kind = "ok"
           THEN /\ ret' = [op |-> "guest_compute", kind |-> "ok",
                           output |-> r.output, proof |-> r.proof]
                /\ proof' = r.proof
                /\ UNCHANGED aborted
           ELSE /\ Panic("guest_compute", r.cause)
                /\ UNCHANGED proof
    /\ guestCalls' = guestCalls + 1
    /\ proveCalls' = proveCalls + 1
    /\ calls' = calls + 1
    /\ UNCHANGED <<contract, job, log, writes, execCalls, boundaryVars>>

\* verify_proof with a slip: verified against the all-zero identity
verify_proof_wrong_id(p) ==
    LET result == JobReceiptVerify(p, ZERO_METHOD_ID)
    IN  IF result.ok THEN [kind |-> "ok", value |-> TRUE, printed |-> <<>>]
        ELSE [kind |-> "ok", value |-> FALSE, printed |-> <<result.cause>>]

\* verify_proof with a slip: the verifier's error is unwrapped
verify_proof_propagates(p) ==
    LET result == JobReceiptVerify(p, METHOD_ID)
    IN  IF result.ok THEN [kind |-> "ok", value |-> TRUE, printed |-> <<>>]
        ELSE [kind |-> "panic", cause |-> result.cause, printed |-> <<>>]

\* Benchmark::verify_proof(&self, _output, proof): the boolean it returns and
\* what it prints
verify_proof(p) ==
    LET result == JobReceiptVerify(p, METHOD_ID)
    IN  IF result.ok THEN [kind |-> "ok", value |-> TRUE, printed |-> <<>>]
        ELSE [kind |-> "ok", value |-> FALSE, printed |-> <<result.cause>>]

\* The receipts the caller can pass: the one it holds and the samples.
Passable == SampleProofs \cup (IF proof = NoProof THEN {} ELSE {proof})

VerifyProof(p) ==
    /\ Running
    /\ contract = "Benchmark"
    /\ LET r == verify_proof(p)
       IN  IF r.kind = "ok"
           THEN /\ ret' = [op |-> "verify_proof", kind |-> "ok",
                           value |-> r.value, proof |-> p]
                /\ log' = log \o r.printed
                /\ UNCHANGED aborted
           ELSE /\ Panic("verify_proof", r.cause)
                /\ UNCHANGED log
    /\ calls' = calls + 1
    /\ UNCHANGED <<contract, job, proof, writes, execCalls, guestCalls,
                   proveCalls, boundaryVars>>

RECURSIVE SealKiB(_)
\* fold(0, |acc, segment| acc + segment.get_seal_bytes().len())
SealKiB(segments) ==
    IF segments = <<>> THEN 0
    ELSE Head(segments).seal_kib + SealKiB(Tail(segments))

\* Benchmark::proof_size_bytes(proof), in KiB: flat().unwrap() panics when
\* the inner receipt is not flat, and the sum is cast with `as u32`
proof_size_bytes(p) ==
    LET flat == InnerFlat(p)
    IN  IF ~flat.ok THEN [kind |-> "panic", cause |-> flat.cause]
        ELSE [kind |-> "ok", value |-> SealKiB(flat.value) % U32_KIB]

ProofSizeBytes(p) ==
    /\ Running
    /\ contract = "Benchmark"
    /\ LET r == proof_size_bytes(p)
       IN  IF r.kind = "ok"
           THEN /\ ret' = [op |-> "proof_size_bytes", kind |-> "ok",
                           value |-> r.value, proof |-> p]
                /\ UNCHANGED aborted
           ELSE /\ aborted' = TRUE
                /\ ret' = [op |-> "proof_size_bytes", kind |-> "panic",
                           cause |-> r.cause, proof |-> p]
    /\ calls' = calls + 1
    /\ UNCHANGED <<contract, job, proof, log, writes, execCalls, guestCalls,
                   proveCalls, boundaryVars>>

\* BenchmarkAverage::guest_compute(&mut self) with a slip: the receipt is
\* kept in place of being dropped
AvgGuestCompute_keeps(n, fails) ==
    /\ Running
    /\ contract = "BenchmarkAverage"
    /\ LET r == ProverProve(job.env, job.image, n, fails)
       IN  IF r.ok
           THEN /\ ret' = [op |-> "guest_compute", kind |-> "ok",
                           value |-> "unit"]
                /\ proof' = r.receipt
                /\ UNCHANGED aborted
           ELSE /\ Panic("guest_compute", "receipt")
                /\ UNCHANGED proof
    /\ guestCalls' = guestCalls + 1
    /\ proveCalls' = proveCalls + 1
    /\ calls' = calls + 1
    /\ UNCHANGED <<contract, job, log, writes, execCalls, boundaryVars>>

\* BenchmarkAverage::guest_compute(&mut self): proves from env and image,
\* drops the receipt, panics through expect("receipt") when the prover fails
AvgGuestCompute(n, fails) ==
    /\ Running
    /\ contract = "BenchmarkAverage"
    /\ LET r == ProverProve(job.env, job.image, n, fails)
       IN  IF r.ok
           THEN /\ ret' = [op |-> "guest_compute", kind |-> "ok",
                           value |-> "unit"]
                /\ UNCHANGED aborted
           ELSE Panic("guest_compute", "receipt")
    /\ guestCalls' = guestCalls + 1
    /\ proveCalls' = proveCalls + 1
    /\ calls' = calls + 1
    /\ UNCHANGED <<contract, job, proof, log, writes, execCalls,
                   boundaryVars>>

Init ==
    /\ BoundaryIdle
    /\ contract \in {"Benchmark", "BenchmarkAverage"}
    /\ \E spec \in Specs :
          job = IF contract = "Benchmark" THEN BenchmarkNew(spec)
                ELSE BenchmarkAverageNew(spec)
    /\ proof = NoProof
    /\ ret = NoReturn
    /\ log = <<>>
    /\ aborted = FALSE
    /\ writes = 0
    /\ execCalls = 0
    /\ guestCalls = 0
    /\ proveCalls = 0
    /\ calls = 0

Next ==
    \/ JobSize
    \/ \E n \in 1..MaxSegments : ExecCompute(n)
    \/ ExecComputeFault
    \/ \E fails \in BOOLEAN : GuestCompute(fails)
    \/ \E p \in Passable : VerifyProof(p)
    \/ \E p \in Passable : ProofSizeBytes(p)
    \/ \E n \in 1..MaxSegments, fails \in BOOLEAN : AvgGuestCompute(n, fails)

Spec == Init /\ [][Next]_vars

\* ------------------------------------------------------------------------
\* Properties of the Job (checked under Spec)
\* ------------------------------------------------------------------------

\* The step just taken was a call of op.
Called(op) == calls' = calls + 1 /\ ret'.op = op

\* receipt p is what proving session s yields: the same journal and one seal
\* per segment, each for the image the segment ran
DerivedFrom(p, s) ==
    /\ p.inner.kind = "Flat"
    /\ p.journal = s.journal
    /\ Len(p.inner.segments) = Len(s.segments)
    /\ \A i \in 1..Len(s.segments) :
          p.inner.segments[i].image_id = s.segments[i].image_id

\* C5: the receipt guest_compute returned for a Job whose exec_compute ran
\* verifies against the method identity (verify_proof returns true) and
\* against no other identity, the all-zero identity included.
C5_ProvedReceiptVerifies ==
    (proof # NoProof /\ execCalls > 0) =>
        /\ verify_proof(proof).kind = "ok"
        /\ verify_proof(proof).value = TRUE
        /\ \A id \in OtherMethodIds : ~JobReceiptVerify(proof, id).ok

\* verify_proof has just returned true for the receipt guest_compute gave
C5_Witness ==
    /\ proof # NoProof
    /\ execCalls > 0
    /\ ret.op = "verify_proof"
    /\ ret.proof = proof
    /\ ret.value = TRUE

\* C6: every verify_proof call returns a boolean without panicking: true
\* exactly when the verifier accepts the receipt against METHOD_ID; on a
\* verifier error it prints the cause and returns false; the Job and the
\* receipt the caller holds are unchanged.
C6_VerifyProofTotal ==
    [][Called("verify_proof") =>
         /\ ret'.kind = "ok"
         /\ aborted' = FALSE
         /\ ret'.value \in BOOLEAN
         /\ ret'.value = JobReceiptVerify(ret'.proof, METHOD_ID).ok
         /\ ret'.value => log' = log
         /\ ~ret'.value =>
                log' = Append(log, JobReceiptVerify(ret'.proof,
                                                    METHOD_ID).cause)
         /\ job' = job
         /\ proof' = proof]_vars

\* a receipt for another image was refused and the cause printed
C6_Witness ==
    /\ ret.op = "verify_proof"
    /\ ret.kind = "ok"
    /\ ret.value = FALSE
    /\ ret.proof.inner.kind = "Flat"
    /\ Len(ret.proof.inner.segments) = 1
    /\ log = <<"image id or journal mismatch">>
    /\ ~aborted

\* C7: proof_size_bytes never fails, returns the sum of the seal lengths of
\* the receipt's segments (0 for no segments), and does not get smaller
\* when a segment is appended.
C7_ProofSizeIsSealSum ==
    ret.op = "proof_size_bytes" =>
        /\ ret.kind = "ok"
        /\ ret.value = SealKiB(ret.proof.inner.segments)
        /\ ret.proof.inner.segments = <<>> => ret.value = 0
        /\ \A kib \in {0, 256, 2097152} :
              LET more == Flat(Append(ret.proof.inner.segments,
                                      SegmentReceipt(METHOD_ID,
                                                     ret.proof.journal, kib)),
                               ret.proof.journal)
              IN  /\ proof_size_bytes(more).kind = "ok"
                  /\ proof_size_bytes(more).value >= ret.value

\* C8: whichever constructor built the Job, the input written to its
\* environment is 36 bytes: bytes 0..3 are spec in little-endian order, the
\* other 32 are zero, both constructors write the same buffer, and job_size
\* of the Job's spec is spec.
C8_GuestInputLayout ==
    LET b == job.env.input
    IN  /\ Len(b) = GUEST_INPUT_LEN
        /\ \A i \in 1..4 : b[i] \in 0..255
        /\ b[1] + 256 * b[2] + 65536 * b[3] + 16777216 * b[4] = job.spec
        /\ \A i \in 5..GUEST_INPUT_LEN : b[i] = 0
        /\ BenchmarkNew(job.spec).env = BenchmarkAverageNew(job.spec).env
        /\ ret.op = "job_size" => ret.value = job.spec

\* spec 0x01020304 built by the averaging constructor, and job_size called
C8_Witness ==
    /\ contract = "BenchmarkAverage"
    /\ job.spec = 16909060
    /\ SubSeq(job.env.input, 1, 4) = <<4, 3, 2, 1>>
    /\ ret.op = "job_size"

\* C9: under the averaging contract the Job stays as constructed (spec,
\* environment, image, placeholder session, prover) through any number of
\* guest_compute calls, no receipt is kept, every call invokes the backend
\* exactly once, and a backend failure panics with nothing run after it.
C9_AveragingLeavesJob ==
    contract = "BenchmarkAverage" =>
        /\ job = BenchmarkAverageNew(job.spec)
        /\ job.session.segments = <<>>
        /\ job.session.journal = <<>>
        /\ job.session.exit_code = Halted0
        /\ job.env.input = AverageGuestInput(job.spec)
        /\ proof = NoProof
        /\ writes = 0
        /\ proveCalls = guestCalls
        /\ (ret.op = "guest_compute" /\ ret.kind = "ok") => ret.value = "unit"
        /\ (ret.op = "guest_compute" /\ ret.kind = "panic") =>
               aborted /\ ~ENABLED Next

\* two calls went through and the backend failed in the third
C9_Witness ==
    /\ contract = "BenchmarkAverage"
    /\ guestCalls = 3
    /\ proveCalls = 3
    /\ aborted
    /\ ret.op = "guest_compute"
    /\ ret.kind = "panic"

\* C10 as claimed: over any sequence of phase calls the trace of a Job is
\* written at most once after construction.
C10_TraceWrittenOnce == writes <= 1

\* C10 as amended: construction sets the placeholder trace; every
\* exec_compute call that returns writes the trace once, and nothing else
\* writes it; guest_compute reads the trace and leaves it in place; every
\* receipt the full guest_compute returns is derived from the trace that an
\* exec_compute call wrote.
C10_TraceWrittenByExecOnly ==
    /\ [](execCalls = 0 =>
            /\ job.session.segments = <<>>
            /\ job.session.journal = <<>>
            /\ job.session.exit_code = Halted0
            /\ writes = 0)
    /\ [][/\ job'.session # job.session => Called("exec_compute")
          /\ writes' # writes => Called("exec_compute")
          /\ (Called("exec_compute") /\ ret'.kind = "ok") =>
                writes' = writes + 1
          /\ Called("guest_compute") => job' = job
          /\ (contract = "Benchmark" /\ Called("guest_compute")
                  /\ ret'.kind = "ok") =>
                /\ writes > 0
                /\ proof' = ret'.proof
                /\ DerivedFrom(ret'.proof, job.session)]_vars

\* the trace was written twice and guest_compute then returned a receipt
C10_Witness ==
    /\ execCalls = 2
    /\ writes = 2
    /\ ret.op = "guest_compute"
    /\ ret.kind = "ok"
    /\ DerivedFrom(proof, job.session)

\* ------------------------------------------------------------------------
\* Properties of the receipt boundary (checked under SpecBoundary)
\* ------------------------------------------------------------------------

\* The boundary state machine's state of the handle: Unparsed, Rejected,
\* Parsed, and after a validate call Valid (it returned Ok) or Invalid.
HandleState ==
    IF phase # "Parsed" THEN phase
    ELSE IF lastValidate = "none" THEN "Parsed"
    ELSE IF lastValidate = "ok" THEN "Valid"
    ELSE "Invalid"

ValidatedIds == {id \in ImageIds : results[id] # "none"}

\* C1: a validate call whose image_id is not exactly 32 bytes long returns a
\* format error as a value and does not call the receipt verifier; the
\* verifier is called only by validate calls with a 32-byte image_id.
C1_LengthCheckedFirst ==
    [][validateCalls' = validateCalls + 1 =>
         /\ bret'.op = "validate"
         /\ Len(bret'.image_id) # IMAGE_ID_BYTES =>
                /\ bret'.kind = "format_error"
                /\ verifyCalls' = verifyCalls
         /\ verifyCalls' # verifyCalls =>
                Len(bret'.image_id) = IMAGE_ID_BYTES]_vars

\* a 33-byte identity was rejected after the verifier ran for another call
C1_Witness ==
    /\ bret.op = "validate"
    /\ Len(bret.image_id) = IMAGE_ID_BYTES + 1
    /\ bret.kind = "format_error"
    /\ verifyCalls = 1
    /\ validateCalls = 3

\* C2: validate is idempotent: for every identity the latest validate call
\* returned what the first call with that identity returned, whatever
\* journal calls and validate calls with other identities came in between.
C2_ValidateIdempotent ==
    \A id \in ImageIds : results[id] = firstResult[id]

\* three validate calls over two identities, so one identity was repeated,
\* and a journal call came last
C2_Witness ==
    /\ validateCalls = 3
    /\ ValidatedIds = {FIB_ID, ZERO_ID}
    /\ results[FIB_ID] = "ok"
    /\ results[ZERO_ID] = "validation_error"
    /\ bret.op = "journal"

\* C3: deserialize of a buffer that is not the encoding of a receipt (the
\* empty buffer included) returns a decode error with a cause and no handle,
\* and no journal or validate call follows it; deserialize of the encoding
\* of a receipt yields a Parsed handle holding that receipt.
C3_DeserializeRejects ==
    phase # "Unparsed" =>
        IF \E r \in SampleReceipts : buffer = Encode(r)
        THEN /\ phase = "Parsed"
             /\ handle \in SampleReceipts
             /\ buffer = Encode(handle)
        ELSE /\ phase = "Rejected"
             /\ handle = NoHandle
             /\ bret.op = "bincode_deserialize"
             /\ bret.kind = "decode_error"
             /\ bret.error.prefix = "Failed to deserialize receipt: "
             /\ bret.error.cause # ""
             /\ validateCalls = 0
             /\ ~ENABLED Journal
             /\ \A id \in ImageIds : ~ENABLED Validate(id)

\* the empty buffer was rejected
C3_Witness ==
    /\ buffer = <<>>
    /\ phase = "Rejected"
    /\ bret.kind = "decode_error"

\* C4 as claimed: Valid and Invalid are terminal, no later operation moves a
\* validated handle to the other outcome.
C4_OutcomeTerminal ==
    [][/\ HandleState = "Valid" => HandleState' # "Invalid"
       /\ HandleState = "Invalid" => HandleState' # "Valid"]_vars

\* C4 as amended: journal is available in every state of a Parsed handle,
\* validate leaves the handle Valid or Invalid, and the outcome is terminal
\* per identity: no later operation changes the outcome recorded for an
\* identity (a validate with another identity may move the handle over).
C4_OutcomeTerminalPerIdentity ==
    /\ [](phase = "Parsed" => ENABLED Journal)
    /\ [](validateCalls > 0 => HandleState \in {"Valid", "Invalid"})
    /\ [][\A id \in ImageIds :
            results[id] # "none" => results'[id] = results[id]]_vars

\* the handle is Invalid after having been Valid for FIB_ID
C4_Witness ==
    /\ HandleState = "Invalid"
    /\ results[FIB_ID] = "ok"
    /\ bret.op = "validate"
    /\ bret.image_id = ZERO_ID

====
